---- MODULE Spec2Model ----
(***************************************************************************)
(* Model of the VTEX integration layer:                                    *)
(*   - src/commerce/vtex/hooks/useCart.ts: the cart and loading signals,   *)
(*     the promise queue (withPQueue) and the middlewares withCart and     *)
(*     withLoading around the checkout requests;                           *)
(*   - src/commerce/vtex/transform.ts: toProductPage, toProduct, toOffer,  *)
(*     bestOfferFirst, toBreadcrumbList, toFilter, legacyFacetToFilter,    *)
(*     filtersToSearchParams, filtersFromSearchParams.                     *)
(***************************************************************************)
EXTENDS Integers, Sequences, FiniteSets, TLC

VARIABLES
    \* ---- useCart.ts ----
    hasDocument,      \* typeof document !== "undefined" (client side)
    visibilityState,  \* document.visibilityState
    cart,             \* cart.value: Null or an order form
    loading,          \* loading.value
    queue,            \* the chain of promises built by withPQueue, oldest first
    requests,         \* fetchAPI requests of queued operations in flight
    simulations,      \* simulate() requests in flight
    \* ---- transform.ts ----
    product,          \* the product object handed to toProductPage
    input,            \* the same product as it was before the first call
    maybeSkuId,       \* second argument of toProductPage
    results,          \* what each call of toProductPage returned or threw
    facet,            \* first argument of toFilter
    selectedFacets,   \* second argument of toFilter
    filter,           \* what toFilter returned
    searchParams,     \* the URLSearchParams handed to filtersFromSearchParams
    parsedFacets,     \* what filtersFromSearchParams returned
    legacyFacets,     \* second argument of legacyFacetToFilter
    legacyUrl,        \* third argument of legacyFacetToFilter
    legacyMap,        \* fourth argument of legacyFacetToFilter
    legacyFilter      \* what legacyFacetToFilter returned

cartVars == <<hasDocument, visibilityState, cart, loading, queue, requests,
              simulations>>
productVars == <<product, input, maybeSkuId, results>>
searchVars == <<searchParams, parsedFacets>>
legacyVars == <<legacyFacets, legacyUrl, legacyMap, legacyFilter>>
filterVars == <<facet, selectedFacets, filter, searchVars, legacyVars>>
vars == <<cartVars, productVars, filterVars>>

(***************************************************************************)
(* Bounds                                                                  *)
(***************************************************************************)
MaxOps == 3           \* promises ever chained on the queue
MaxSimulations == 1   \* simulate() requests in flight at once
MaxItems == 2         \* skus of a product
MaxCategories == 2    \* category paths of a product
MaxSellers == 3       \* sellers of a sku
MaxCalls == 2         \* calls of toProductPage on the same product object
MaxSelected == 2      \* selected facets of a search
MaxValues == 2        \* values of a facet
MaxMapSegments == 3   \* segments of the map parameter of a legacy search url

(***************************************************************************)
(* useCart.ts                                                              *)
(***************************************************************************)
Null == "null"
OrderForms == {"of1", "of2"}          \* order forms the checkout API returns
FetchError == "fetch failed"          \* fetchAPI rejected
MissingCartError == "Missing cart"
NoError == "none"

\* The eight operations of the state object that are wrapped in withCart.
Mutations == {"removeAllItems", "removeAllPersonalData", "updateItems",
              "addItems", "changePrice", "ignoreProfileData",
              "getCartInstallments", "addCouponsToCart"}
GetCart == "getCart"

Settled == {"fulfilled", "rejected"}

\* A promise of the chain: the operation whose callback it is the result of,
\* its state, the rejection reason, and whether its callback was invoked.
Promise(op) == [op |-> op, state |-> "pending", error |-> NoError, ran |-> FALSE]

\* Mutant: the callback is invoked at once instead of being chained with .then().
PredecessorIgnored(i) == TRUE

\* The promise `queue` the i-th callback was chained on with .then(): the
\* initial Promise.resolve() for the first one.
PredecessorSettled(i) == IF i = 1 THEN TRUE ELSE queue[i - 1].state \in Settled
PredecessorRejected(i) == IF i = 1 THEN FALSE ELSE queue[i - 1].state = "rejected"

\* queue = queue.then(cb); return queue
withPQueue(op) ==
    /\ Len(queue) < MaxOps
    /\ queue' = Append(queue, Promise(op))

\* throw inside a callback: the promise of the callback rejects.
Throw(i, err) ==
    /\ queue' = [queue EXCEPT ![i].state = "rejected", ![i].error = err,
                              ![i].ran = TRUE]
    /\ UNCHANGED <<cart, loading, requests>>

\* withLoading(cb) up to the await: loading.value = true, then cb() issues
\* its fetchAPI request.  Every mutation reads cart.value!.orderFormId for the
\* URL; getCart does not.
withLoading(i) ==
    /\ loading' = TRUE
    /\ requests' = requests \cup
          {[id |-> i, op |-> queue[i].op,
            orderFormId |-> IF queue[i].op = GetCart THEN Null ELSE cart,
            response |-> "pending"]}
    /\ queue' = [queue EXCEPT ![i].state = "running", ![i].ran = TRUE]
    /\ UNCHANGED cart

\* Mutant: withCart without its null check.
withCartUnchecked(i) == withLoading(i)

\* withCart(cb): throw when cart.value === null, else run cb.
withCart(i) ==
    IF cart = Null THEN Throw(i, MissingCartError) ELSE withLoading(i)

\* The callback handed to withPQueue: the automatic getCart is
\* withLoading(getCart), every operation of `state` is withCart(withLoading).
Callback(i) ==
    IF queue[i].op = GetCart THEN withLoading(i) ELSE withCart(i)

\* The reaction of queue.then(cb) once the promise it was chained on settles:
\* a rejection is passed on without calling cb, a fulfilment calls cb.
Then(i) ==
    /\ i \in DOMAIN queue
    /\ queue[i].state = "pending"
    /\ PredecessorSettled(i)
    /\ IF PredecessorRejected(i)
       THEN /\ queue' = [queue EXCEPT ![i].state = "rejected",
                                      ![i].error = queue[i - 1].error]
            /\ UNCHANGED <<cart, loading, requests>>
       ELSE Callback(i)
    /\ UNCHANGED <<hasDocument, visibilityState, simulations>>

\* state.removeAllItems(), state.addItems(opts), ...
CallMutation(op) ==
    /\ op \in Mutations
    /\ withPQueue(op)
    /\ UNCHANGED <<hasDocument, visibilityState, cart, loading, requests,
                   simulations>>

\* The visibilitychange listener: visible && _getCart().
VisibilityChange ==
    /\ hasDocument
    /\ IF visibilityState = "visible"
       THEN /\ visibilityState' = "hidden"
            /\ UNCHANGED queue
       ELSE /\ visibilityState' = "visible"
            /\ withPQueue(GetCart)
    /\ UNCHANGED <<hasDocument, cart, loading, requests, simulations>>

\* The checkout API answers a request: an order form, or a failure.
ServerResponds(r, resp) ==
    /\ r \in requests
    /\ r.response = "pending"
    /\ requests' = (requests \ {r}) \cup {[r EXCEPT !.response = resp]}
    /\ UNCHANGED <<hasDocument, visibilityState, cart, loading, queue,
                   simulations>>

\* Mutant: the order form returned by the request is dropped.
SettleFulfilledDropsResponse(r) ==
    /\ cart' = cart
    /\ loading' = FALSE
    /\ queue' = [queue EXCEPT ![r.id].state = "fulfilled"]

\* await fetchAPI(...) returned: cart.value = <order form>; then the finally
\* of withLoading: loading.value = false; the promise fulfils.
SettleFulfilled(r) ==
    /\ cart' = r.response
    /\ loading' = FALSE
    /\ queue' = [queue EXCEPT ![r.id].state = "fulfilled"]

\* Mutant: withLoading resets loading after the await instead of in a finally.
SettleRejectedNoFinally(r) ==
    /\ cart' = cart
    /\ loading' = loading
    /\ queue' = [queue EXCEPT ![r.id].state = "rejected",
                              ![r.id].error = FetchError]

\* await fetchAPI(...) threw: no assignment to cart; the finally of
\* withLoading: loading.value = false; the promise rejects.
SettleRejected(r) ==
    /\ cart' = cart
    /\ loading' = FALSE
    /\ queue' = [queue EXCEPT ![r.id].state = "rejected",
                              ![r.id].error = FetchError]

Settle(r) ==
    /\ r \in requests
    /\ r.response # "pending"
    /\ requests' = requests \ {r}
    /\ IF r.response \in OrderForms THEN SettleFulfilled(r) ELSE SettleRejected(r)
    /\ UNCHANGED <<hasDocument, visibilityState, simulations>>

\* state.simulate(data): a bare fetchAPI, outside the queue and the signals.
simulate ==
    /\ simulations < MaxSimulations
    /\ simulations' = simulations + 1
    /\ UNCHANGED <<hasDocument, visibilityState, cart, loading, queue, requests>>

SimulationSettles ==
    /\ simulations > 0
    /\ simulations' = simulations - 1
    /\ UNCHANGED <<hasDocument, visibilityState, cart, loading, queue, requests>>

\* Module load: the signals, the queue, and on the client the first _getCart().
InitCart ==
    /\ hasDocument \in BOOLEAN
    /\ visibilityState = "visible"
    /\ cart = Null
    /\ loading = TRUE
    /\ queue = IF hasDocument THEN <<Promise(GetCart)>> ELSE <<>>
    /\ requests = {}
    /\ simulations = 0

IdleProduct ==
    /\ product = [items |-> <<>>, categories |-> <<>>]
    /\ input = product
    /\ maybeSkuId = "undefined"
    /\ results = <<>>

IdleSearch ==
    /\ searchParams = <<>>
    /\ parsedFacets = <<>>

IdleLegacy ==
    /\ legacyFacets = <<>>
    /\ legacyUrl = [pathname |-> <<>>, search |-> <<>>]
    /\ legacyMap = <<>>
    /\ legacyFilter = <<>>

IdleFilter ==
    /\ facet = <<>>
    /\ selectedFacets = <<>>
    /\ filter = <<>>
    /\ IdleSearch
    /\ IdleLegacy

Init == InitCart /\ IdleProduct /\ IdleFilter

Next ==
    \/ \E op \in Mutations : CallMutation(op) /\ UNCHANGED <<productVars, filterVars>>
    \/ VisibilityChange /\ UNCHANGED <<productVars, filterVars>>
    \/ \E i \in 1..MaxOps : Then(i) /\ UNCHANGED <<productVars, filterVars>>
    \/ \E r \in requests, resp \in OrderForms \cup {"error"} :
          ServerResponds(r, resp) /\ UNCHANGED <<productVars, filterVars>>
    \/ \E r \in requests : Settle(r) /\ UNCHANGED <<productVars, filterVars>>
    \/ simulate /\ UNCHANGED <<productVars, filterVars>>
    \/ SimulationSettles /\ UNCHANGED <<productVars, filterVars>>

Spec == Init /\ [][Next]_vars

(***************************************************************************)
(* transform.ts: products and offers                                       *)
(*                                                                         *)
(* Strings that the code takes apart (category paths) are sequences of     *)
(* one-character strings; opaque strings (ids, names) are TLA+ strings.    *)
(* An optional number is <<>> when undefined and <<n>> when defined.       *)
(***************************************************************************)
Undefined == "undefined"

\* String.prototype.split(sep) for a one-character separator.
RECURSIVE Split(_, _)
Split(s, sep) ==
    IF s = <<>> THEN << <<>> >>
    ELSE IF Head(s) = sep THEN << <<>> >> \o Split(Tail(s), sep)
    ELSE LET rest == Split(Tail(s), sep)
         IN  << <<Head(s)>> \o Head(rest) >> \o Tail(rest)

\* Array.prototype.join(sep)
RECURSIVE Join(_, _)
Join(segments, sep) ==
    IF segments = <<>> THEN <<>>
    ELSE IF Len(segments) = 1 THEN Head(segments)
    ELSE Head(segments) \o <<sep>> \o Join(Tail(segments), sep)

\* Array.prototype.reverse()
Reverse(seq) == [i \in DOMAIN seq |-> seq[Len(seq) + 1 - i]]

\* firstCategory.split("/").filter(Boolean)
splitCategory(firstCategory) ==
    SelectSeq(Split(firstCategory, "/"), LAMBDA segment : segment # <<>>)

\* toOffer; the sellers of the model have no Installments, so
\* priceSpecification holds the list price and the sale price only.
toOffer(seller) ==
    [price |-> IF seller.commertialOffer.spotPrice # <<>>
               THEN seller.commertialOffer.spotPrice[1]
               ELSE seller.commertialOffer.Price,
     seller |-> seller.sellerId,
     inventoryLevel |-> [value |-> seller.commertialOffer.AvailableQuantity],
     priceSpecification |->
        << [priceType |-> "https://schema.org/ListPrice",
            price |-> seller.commertialOffer.ListPrice],
           [priceType |-> "https://schema.org/SalePrice",
            price |-> seller.commertialOffer.Price] >>,
     availability |-> IF seller.commertialOffer.AvailableQuantity > 0
                      THEN "https://schema.org/InStock"
                      ELSE "https://schema.org/OutOfStock"]

inStock(offer) == offer.availability = "https://schema.org/InStock"

\* Mutant: the comparator forgets the stock and compares prices only.
bestOfferFirstByPriceOnly(a, b) == a.price - b.price

\* Smallest Available Spot Price First
bestOfferFirst(a, b) ==
    IF inStock(a) /\ ~inStock(b) THEN -1
    ELSE IF ~inStock(a) /\ inStock(b) THEN 1
    ELSE a.price - b.price

\* Array.prototype.sort(bestOfferFirst): a stable sort; with a comparator that
\* is a total preorder its result is that of a stable insertion sort.
RECURSIVE InsertOffer(_, _)
InsertOffer(sorted, offer) ==
    IF sorted = <<>> THEN <<offer>>
    ELSE IF bestOfferFirst(Head(sorted), offer) <= 0
         THEN <<Head(sorted)>> \o InsertOffer(Tail(sorted), offer)
         ELSE <<offer>> \o sorted

RECURSIVE SortOffers(_)
SortOffers(offers) ==
    IF offers = <<>> THEN <<>>
    ELSE InsertOffer(SortOffers(SubSeq(offers, 1, Len(offers) - 1)),
                     offers[Len(offers)])

\* Mutant: the index of the last offer, in stock or not.
getLastIndex(offers) == Len(offers) - 1

\* getHighPriceIndex; `it` is the 0-based index of the code.
RECURSIVE HighPriceIndexFrom(_, _)
HighPriceIndexFrom(offers, it) ==
    IF it > 0 /\ ~inStock(offers[it + 1])
    THEN HighPriceIndexFrom(offers, it - 1)
    ELSE it

getHighPriceIndex(offers) == HighPriceIndexFrom(offers, Len(offers) - 1)

\* toAdditionalPropertyCategories
toAdditionalPropertyCategories(p) ==
    LET categories == splitCategory(p.categories[1])
        categoryIds == splitCategory(p.categoriesIds[1])
    IN  [i \in DOMAIN categories |->
            [name |-> "category", value |-> categories[i]]]
        \o [i \in DOMAIN categoryIds |->
            [name |-> "categoryId", value |-> categoryIds[i]]]

\* getProductURL: /${linkText}/p?skuId=${skuId}
getProductURL(p, skuId) ==
    [pathname |-> <<p.linkText, "p">>, skuId |-> skuId]

\* toProduct.  The skus of the model carry no variations, images or
\* specifications: those fields are copied through by the code and no
\* property below reads them.
RECURSIVE toProduct(_, _, _)
toProduct(p, sku, level) ==
    LET offers == SortOffers([i \in DOMAIN sku.sellers |-> toOffer(sku.sellers[i])])
        hasVariant == IF level < 1
                      THEN [i \in DOMAIN p.items |-> toProduct(p, p.items[i], 1)]
                      ELSE <<>>
        highPriceIndex == getHighPriceIndex(offers)
        lowPriceIndex == 0
    IN  [category |-> Join(splitCategory(p.categories[1]), ">"),
         productID |-> sku.itemId,
         url |-> getProductURL(p, sku.itemId),
         name |-> sku.name,
         sku |-> sku.itemId,
         additionalProperty |-> toAdditionalPropertyCategories(p),
         isVariantOf |-> [productGroupID |-> p.productId,
                          hasVariant |-> hasVariant,
                          url |-> getProductURL(p, sku.itemId),
                          name |-> p.productName],
         offers |-> IF Len(offers) > 0
                    THEN << [highPrice |-> offers[highPriceIndex + 1].price,
                             lowPrice |-> offers[lowPriceIndex + 1].price,
                             offerCount |-> Len(offers),
                             offers |-> offers] >>
                    ELSE <<>>]

\* toBreadcrumbList.  categories.reverse() reverses the array of the product
\* object in place: the operator returns the list and the product as the call
\* leaves it.  The `item` URL of an element (built with slugify, which is not
\* part of these sources) is left out.
toBreadcrumbList(p) ==
    LET categories == Reverse(p.categories)
    IN  [product |-> [p EXCEPT !.categories = categories],
         list |->
            [itemListElement |->
                [i \in DOMAIN categories |->
                    LET splitted == splitCategory(categories[i])
                    IN  [name |-> splitted[Len(splitted)], position |-> i]]
                \o << [name |-> p.productName,
                       position |-> Len(categories) + 1] >>,
             numberOfItems |-> Len(categories) + 1]]

\* Array.prototype.find on product.items: the index of the first match, 0 if none.
FindItem(items, skuId) ==
    IF \E i \in DOMAIN items : items[i].itemId = skuId
    THEN CHOOSE i \in DOMAIN items :
            /\ items[i].itemId = skuId
            /\ \A j \in 1..(i - 1) : items[j].itemId # skuId
    ELSE 0

\* Mutant: || where the code has ??, so an empty string counts as not given.
RequestedSkuIdOr(p, maybe) ==
    IF maybe # Undefined /\ maybe # ""
    THEN maybe
    ELSE IF p.items # <<>> THEN p.items[1].itemId ELSE Undefined

\* maybeSkuId ?? product.items[0]?.itemId
RequestedSkuId(p, maybe) ==
    IF maybe # Undefined
    THEN maybe
    ELSE IF p.items # <<>> THEN p.items[1].itemId ELSE Undefined

\* toProductPage: what it throws or returns, and the product object after the
\* call.  The members of the returned object are evaluated in order:
\* toBreadcrumbList first, then toProduct on the product as that left it.
toProductPage(p, maybe) ==
    LET skuId == RequestedSkuId(p, maybe)
        found == FindItem(p.items, skuId)
    IN  IF found = 0
        THEN [threw |-> TRUE,
              error |-> [missingSku |-> skuId, productName |-> p.productName],
              page |-> <<>>,
              product |-> p]
        ELSE LET breadcrumb == toBreadcrumbList(p)
             IN  [threw |-> FALSE,
                  error |-> [missingSku |-> Undefined, productName |-> p.productName],
                  page |-> << [breadcrumbList |-> breadcrumb.list,
                               product |-> toProduct(breadcrumb.product,
                                                     p.items[found], 0)] >>,
                  product |-> breadcrumb.product]

\* A caller applies toProductPage to the product object it holds.
CallToProductPage ==
    /\ Len(results) < MaxCalls
    /\ LET r == toProductPage(product, maybeSkuId)
       IN  /\ product' = r.product
           /\ results' = Append(results,
                 [threw |-> r.threw, error |-> r.error, page |-> r.page])
    /\ UNCHANGED <<input, maybeSkuId>>

\* ---- inputs ----
ItemIds == {"1", "2"}
SkuIdArguments == {Undefined, "", "1", "2", "3"}
CategoryPaths == { <<"/", "a", "/">>,
                   <<"/", "a", "/", "b", "/">>,
                   <<"/", "c", "/">> }
CategoryIdPaths == { <<"/", "7", "/">>, <<"/", "7", "/", "8", "/">> }
CommertialOffers ==
    [Price : {1, 2}, ListPrice : {3}, spotPrice : {<<>>, <<3>>},
     AvailableQuantity : {0, 2}]
SellerIds == <<"s1", "s2", "s3", "s4", "s5">>

SeqsUpTo(S, lo, hi) == UNION {[1..n -> S] : n \in lo..hi}

Sellers(offers) ==
    [i \in DOMAIN offers |->
        [sellerId |-> SellerIds[i], commertialOffer |-> offers[i]]]

DefaultSellers ==
    Sellers(<< [Price |-> 2, ListPrice |-> 3, spotPrice |-> <<>>,
                AvailableQuantity |-> 2] >>)

Sku(id, sellers) == [itemId |-> id, name |-> id, sellers |-> sellers]

ProductOf(items, categories, categoriesIds) ==
    [productId |-> "p1", productName |-> "product", linkText |-> "product",
     items |-> items, categories |-> categories, categoriesIds |-> categoriesIds]

\* Products as the catalog API returns them: every product has at least one
\* category path (the code reads categories[0] and categoriesIds[0]
\* unconditionally).
InitPages ==
    \E ids \in SeqsUpTo(ItemIds, 0, MaxItems),
       categories \in SeqsUpTo(CategoryPaths, 1, MaxCategories),
       categoryIds \in CategoryIdPaths :
        /\ product = ProductOf([i \in DOMAIN ids |-> Sku(ids[i], DefaultSellers)],
                               categories, <<categoryIds>>)
        /\ maybeSkuId \in SkuIdArguments

InitOffers ==
    \E offers \in SeqsUpTo(CommertialOffers, 0, MaxSellers) :
        /\ product = ProductOf(<<Sku("1", Sellers(offers))>>,
                               << <<"/", "a", "/">> >>, << <<"/", "7", "/">> >>)
        /\ maybeSkuId = Undefined

IdleCart ==
    /\ hasDocument = FALSE
    /\ visibilityState = "visible"
    /\ cart = Null
    /\ loading = TRUE
    /\ queue = <<>>
    /\ requests = {}
    /\ simulations = 0

InitProduct ==
    /\ InitPages \/ InitOffers
    /\ input = product
    /\ results = <<>>
    /\ IdleCart
    /\ IdleFilter

NextProduct == CallToProductPage /\ UNCHANGED <<cartVars, filterVars>>

SpecProduct == InitProduct /\ [][NextProduct]_vars

(***************************************************************************)
(* Properties of toProductPage and toProduct                               *)
(***************************************************************************)

\* The sku id a call asks for: maybeSkuId when it is given, else the itemId of
\* the first item of the product as it was passed.
AskedSkuId ==
    IF maybeSkuId # Undefined THEN maybeSkuId
    ELSE IF Len(input.items) > 0 THEN input.items[1].itemId
    ELSE Undefined

AskedSkus == {i \in DOMAIN input.items : input.items[i].itemId = AskedSkuId}

C3_ToProductPagePure ==
    /\ results # <<>> => product = input
    /\ \A k, l \in DOMAIN results : results[k] = results[l]
    /\ \A k \in DOMAIN results :
          ~results[k].threw =>
             /\ results[k].page[1].product.category =
                   Join(splitCategory(input.categories[1]), ">")
             /\ \A c \in DOMAIN splitCategory(input.categories[1]) :
                   results[k].page[1].product.additionalProperty[c] =
                      [name |-> "category",
                       value |-> splitCategory(input.categories[1])[c]]

\* The sellers of the sku a returned page is about, and its AggregateOffer.
PageSellers == input.items[CHOOSE i \in AskedSkus : \A j \in AskedSkus : i <= j].sellers
PageOffers(k) == results[k].page[1].product.offers

Count(seq, x) == Cardinality({i \in DOMAIN seq : seq[i] = x})
Min(S) == CHOOSE x \in S : \A y \in S : x <= y
Max(S) == CHOOSE x \in S : \A y \in S : x >= y

\* C4: the offers of a sku are a permutation of its sellers mapped by toOffer,
\* every offer with AvailableQuantity > 0 before every other one, and prices
\* non-decreasing within the in-stock offers and within the out-of-stock ones.
C4_OffersSorted ==
    \A k \in DOMAIN results :
        (~results[k].threw /\ PageSellers # <<>>) =>
            LET offers == PageOffers(k)[1].offers
                mapped == [i \in DOMAIN PageSellers |->
                              [price |-> IF PageSellers[i].commertialOffer.spotPrice # <<>>
                                         THEN PageSellers[i].commertialOffer.spotPrice[1]
                                         ELSE PageSellers[i].commertialOffer.Price,
                               seller |-> PageSellers[i].sellerId,
                               quantity |->
                                  PageSellers[i].commertialOffer.AvailableQuantity]]
                built == [i \in DOMAIN offers |->
                              [price |-> offers[i].price,
                               seller |-> offers[i].seller,
                               quantity |-> offers[i].inventoryLevel.value]]
            IN  /\ Len(offers) = Len(PageSellers)
                /\ \A i \in DOMAIN mapped :
                      Count(built, mapped[i]) = Count(mapped, mapped[i])
                /\ \A i, j \in DOMAIN offers :
                      i < j =>
                         /\ offers[j].inventoryLevel.value > 0 =>
                               offers[i].inventoryLevel.value > 0
                         /\ (offers[i].inventoryLevel.value > 0 <=>
                             offers[j].inventoryLevel.value > 0) =>
                               offers[i].price <= offers[j].price

\* C4 witness: a sku whose sellers arrive out of stock first and dearer first.
C4_Witness ==
    /\ results # <<>>
    /\ ~results[1].threw
    /\ Len(PageSellers) = 3
    /\ PageSellers[1].commertialOffer.AvailableQuantity = 0
    /\ PageSellers[1].commertialOffer.Price = 1
    /\ PageSellers[1].commertialOffer.spotPrice = <<>>
    /\ PageSellers[2].commertialOffer.AvailableQuantity > 0
    /\ PageSellers[2].commertialOffer.spotPrice = <<3>>
    /\ PageSellers[3].commertialOffer.AvailableQuantity > 0
    /\ PageSellers[3].commertialOffer.Price = 2
    /\ PageSellers[3].commertialOffer.spotPrice = <<>>
    /\ PageOffers(1)[1].offers[1].seller = "s3"
    /\ PageOffers(1)[1].offers[3].seller = "s1"

\* C10: for a sku with sellers the AggregateOffer counts the sellers and has
\* lowPrice <= highPrice; with an offer in stock lowPrice and highPrice are
\* the least and the greatest price of the in-stock offers, with none in
\* stock both are the least price of all offers.  For a sku without sellers
\* offers is undefined.
C10_AggregateOffer ==
    \A k \in DOMAIN results :
        ~results[k].threw =>
            IF PageSellers = <<>>
            THEN PageOffers(k) = <<>>
            ELSE LET aggregate == PageOffers(k)[1]
                     all == {toOffer(PageSellers[i]) : i \in DOMAIN PageSellers}
                     available == {o \in all : o.inventoryLevel.value > 0}
                 IN  /\ aggregate.offerCount = Len(PageSellers)
                     /\ aggregate.lowPrice <= aggregate.highPrice
                     /\ available # {} =>
                           /\ aggregate.lowPrice = Min({o.price : o \in available})
                           /\ aggregate.highPrice = Max({o.price : o \in available})
                     /\ available = {} =>
                           /\ aggregate.lowPrice = Min({o.price : o \in all})
                           /\ aggregate.highPrice = Min({o.price : o \in all})

\* C10 witness: in-stock offers at two prices and an out-of-stock offer that is
\* dearer than both.
C10_Witness ==
    /\ results # <<>>
    /\ ~results[1].threw
    /\ Len(PageSellers) = 3
    /\ PageOffers(1) # <<>>
    /\ PageOffers(1)[1].lowPrice = 1
    /\ PageOffers(1)[1].highPrice = 2
    /\ \E i \in DOMAIN PageSellers :
          /\ PageSellers[i].commertialOffer.AvailableQuantity = 0
          /\ toOffer(PageSellers[i]).price = 3

(***************************************************************************)
(* transform.ts: facets                                                    *)
(*                                                                         *)
(* Facet keys and values are sequences of one-character strings.           *)
(***************************************************************************)
FilterPrefix == <<"f", "i", "l", "t", "e", "r", ".">>

\* filtersToSearchParams: one parameter `filter.${key}` = value per selected
\* facet, in order (URLSearchParams.append).
filtersToSearchParams(facets) ==
    [i \in DOMAIN facets |->
        [name |-> FilterPrefix \o facets[i].key, value |-> facets[i].value]]

\* The application/x-www-form-urlencoded serialisation of a name or value.
\* Of the characters of the model (letters, digits, ".", ",") it leaves all
\* but the comma as they are.
RECURSIVE FormUrlEncode(_)
FormUrlEncode(chars) ==
    IF chars = <<>> THEN <<>>
    ELSE (IF Head(chars) = "," THEN <<"%", "2", "C">> ELSE <<Head(chars)>>)
         \o FormUrlEncode(Tail(chars))

\* URLSearchParams.prototype.toString(): name=value pairs joined by "&".
RECURSIVE SearchParamsToString(_)
SearchParamsToString(params) ==
    IF params = <<>> THEN <<>>
    ELSE FormUrlEncode(Head(params).name) \o <<"=">>
         \o FormUrlEncode(Head(params).value)
         \o (IF Len(params) > 1
             THEN <<"&">> \o SearchParamsToString(Tail(params))
             ELSE <<>>)

\* (facet.values as FacetValueRange[]).reduce(min, Infinity); <<>> is Infinity.
RECURSIVE ReduceMin(_, _)
ReduceMin(values, acc) ==
    IF values = <<>> THEN acc
    ELSE ReduceMin(Tail(values),
                   IF acc = <<>> THEN <<Head(values).range.from>>
                   ELSE IF acc[1] > Head(values).range.from
                        THEN <<Head(values).range.from>>
                        ELSE acc)

\* (facet.values as FacetValueRange[]).reduce(max, 0)
RECURSIVE ReduceMax(_, _)
ReduceMax(values, acc) ==
    IF values = <<>> THEN acc
    ELSE ReduceMax(Tail(values),
                   IF acc < Head(values).range.to THEN Head(values).range.to ELSE acc)

\* The selected facets the link of a facet value leads to.
ToggledFilters(f, v, selected) ==
    IF v.selected
    THEN SelectSeq(selected,
                   LAMBDA s : s.key # f.key /\ s.value # v.value)
    ELSE Append(selected, [key |-> f.key, value |-> v.value])

\* toFilter
toFilter(f, selected) ==
    IF f.hidden THEN [type |-> "null"]
    ELSE IF f.type = "PRICERANGE"
    THEN [type |-> "FilterRange", label |-> f.name, key |-> f.key,
          values |-> [min |-> ReduceMin(f.values, <<>>),
                      max |-> ReduceMax(f.values, 0)]]
    ELSE [type |-> "FilterToggle", key |-> f.key, label |-> f.name,
          quantity |-> f.quantity,
          values |->
             [i \in DOMAIN f.values |->
                [value |-> f.values[i].value,
                 quantity |-> f.values[i].quantity,
                 selected |-> f.values[i].selected,
                 url |-> <<"?">> \o SearchParamsToString(
                            filtersToSearchParams(
                               ToggledFilters(f, f.values[i], selected))),
                 label |-> f.values[i].name]]]

\* A caller applies toFilter to a facet of the search response.
CallToFilter ==
    /\ filter = <<>>
    /\ filter' = <<toFilter(facet, selectedFacets)>>
    /\ UNCHANGED <<facet, selectedFacets, searchVars, legacyVars>>

\* ---- inputs ----
FacetKeys == { <<"k">>, <<"c">> }
FacetValues == { <<"x">>, <<"y">> }
SelectedFacet == [key : FacetKeys, value : FacetValues]
PriceRanges == { [range |-> [from |-> 1, to |-> 5]],
                 [range |-> [from |-> 3, to |-> 9]] }

IsSelected(key, value, selected) ==
    \E i \in DOMAIN selected : selected[i] = [key |-> key, value |-> value]

\* A facet of the search response for the query `selected`: its values are
\* distinct and each is flagged selected iff the query selects it.
ToggleFacet(key, values, hidden, selected) ==
    [key |-> key, name |-> key, type |-> "TEXT", hidden |-> hidden,
     quantity |-> Len(values),
     values |-> [i \in DOMAIN values |->
                    [value |-> values[i], name |-> values[i], quantity |-> 1,
                     selected |-> IsSelected(key, values[i], selected)]]]

RangeFacet(ranges, hidden) ==
    [key |-> <<"p">>, name |-> <<"p">>, type |-> "PRICERANGE",
     hidden |-> hidden, quantity |-> Len(ranges), values |-> ranges]

InitFilter ==
    /\ selectedFacets \in SeqsUpTo(SelectedFacet, 0, MaxSelected)
    /\ \/ \E key \in FacetKeys, hidden \in BOOLEAN,
             values \in SeqsUpTo(FacetValues, 1, MaxValues) :
             /\ \A i, j \in DOMAIN values : values[i] = values[j] => i = j
             /\ facet = ToggleFacet(key, values, hidden, selectedFacets)
       \/ \E hidden \in BOOLEAN, ranges \in SeqsUpTo(PriceRanges, 1, MaxValues) :
             facet = RangeFacet(ranges, hidden)
    /\ filter = <<>>
    /\ IdleSearch
    /\ IdleLegacy
    /\ IdleCart
    /\ IdleProduct

NextFilter == CallToFilter /\ UNCHANGED <<cartVars, productVars>>

SpecFilter == InitFilter /\ [][NextFilter]_vars

(***************************************************************************)
(* Properties of toFilter                                                  *)
(***************************************************************************)

\* The url that encodes a list of selected facets.
UrlOf(facets) ==
    <<"?">> \o SearchParamsToString(
                  [i \in DOMAIN facets |->
                      [name |-> FilterPrefix \o facets[i].key,
                       value |-> facets[i].value]])

\* C5: for a facet that is neither hidden nor a price range, the url of each
\* value encodes the selected facets with that one (key, value) pair toggled:
\* added when the value is not selected, and when it is selected only that
\* pair removed, every other selected facet kept.
C5_ToggleByMembership ==
    (filter # <<>> /\ ~facet.hidden /\ facet.type # "PRICERANGE") =>
        \A i \in DOMAIN facet.values :
            LET pair == [key |-> facet.key, value |-> facet.values[i].value]
            IN  filter[1].values[i].url =
                   IF facet.values[i].selected
                   THEN UrlOf(SelectSeq(selectedFacets, LAMBDA s : s # pair))
                   ELSE UrlOf(Append(selectedFacets, pair))

(***************************************************************************)
(* transform.ts: filtersFromSearchParams                                   *)
(***************************************************************************)

\* filtersFromSearchParams: for each parameter in order, name.split(".") is
\* destructured into [filter, key] (its first two segments); the parameter is
\* kept when filter === "filter" and key is a string.
RECURSIVE filtersFromSearchParams(_)
filtersFromSearchParams(params) ==
    IF params = <<>> THEN <<>>
    ELSE LET segments == Split(Head(params).name, ".")
             rest == filtersFromSearchParams(Tail(params))
         IN  IF Head(segments) = <<"f", "i", "l", "t", "e", "r">> /\ Len(segments) >= 2
             THEN << [key |-> segments[2], value |-> Head(params).value] >> \o rest
             ELSE rest

\* A caller parses the selected facets back out of the search parameters.
CallFiltersFromSearchParams ==
    /\ parsedFacets = <<>>
    /\ parsedFacets' = <<filtersFromSearchParams(searchParams)>>
    /\ UNCHANGED <<facet, selectedFacets, filter, searchParams, legacyVars>>

\* ---- inputs ----
\* Facet keys of a search, one of them with a "." in it.
SearchFacetKeys == FacetKeys \cup { <<"a", ".", "b">> }
SearchFacet == [key : SearchFacetKeys, value : FacetValues]

\* Parameters of a search url that are not facets.
OtherParams == { [name |-> <<"p", "a", "g", "e">>, value |-> <<"2">>],
                 [name |-> <<"f", "i", "l", "t", "e", "r">>, value |-> <<"x">>],
                 [name |-> <<"q", ".", "k">>, value |-> <<"x">>] }

InsertAt(seq, i, e) == SubSeq(seq, 1, i) \o <<e>> \o SubSeq(seq, i + 1, Len(seq))

\* The search parameters are those filtersToSearchParams builds for the
\* selected facets, alone or with one other parameter of the url among them.
InitSearch ==
    /\ selectedFacets \in SeqsUpTo(SearchFacet, 0, MaxSelected)
    /\ \/ searchParams = filtersToSearchParams(selectedFacets)
       \/ \E other \in OtherParams, i \in 0..Len(selectedFacets) :
             searchParams = InsertAt(filtersToSearchParams(selectedFacets), i, other)
    /\ parsedFacets = <<>>
    /\ facet = <<>>
    /\ filter = <<>>
    /\ IdleLegacy
    /\ IdleCart
    /\ IdleProduct

NextSearch == CallFiltersFromSearchParams /\ UNCHANGED <<cartVars, productVars>>

SpecSearch == InitSearch /\ [][NextSearch]_vars

(***************************************************************************)
(* Properties of filtersFromSearchParams                                   *)
(***************************************************************************)

\* C12: filtersFromSearchParams inverts filtersToSearchParams: from the
\* parameters built for a list of selected facets it returns the same facets
\* in the same order with the same keys and values (keys with a "." and
\* repeated keys included), ignoring every parameter whose name does not
\* start with the segment "filter".
C12_RoundTrip ==
    parsedFacets # <<>> => parsedFacets[1] = selectedFacets

(***************************************************************************)
(* transform.ts: legacy facets                                             *)
(*                                                                         *)
(* The pathname, the search string and the map parameter are sequences of  *)
(* one-character strings.                                                  *)
(***************************************************************************)
Range(seq) == {seq[i] : i \in DOMAIN seq}

\* String.prototype.replace(pattern, "") with a string pattern: the first
\* occurrence is removed.
RECURSIVE RemoveFirst(_, _)
RemoveFirst(str, pattern) ==
    IF Len(str) < Len(pattern) THEN str
    ELSE IF SubSeq(str, 1, Len(pattern)) = pattern
         THEN SubSeq(str, Len(pattern) + 1, Len(str))
         ELSE <<Head(str)>> \o RemoveFirst(Tail(str), pattern)

\* The URLSearchParams of a search string "?n=v&n=v" ("" has none).
ParseSearch(search) ==
    IF Len(search) <= 1 THEN <<>>
    ELSE LET pairs == Split(Tail(search), "&")
         IN  [i \in DOMAIN pairs |->
                 LET nv == Split(pairs[i], "=")
                 IN  [name |-> Head(nv), value |-> Join(Tail(nv), "=")]]

\* URLSearchParams.prototype.set(name, value): the first parameter of that
\* name takes the value and the others of that name go; appended if none.
SearchParamsSet(params, name, value) ==
    IF \E i \in DOMAIN params : params[i].name = name
    THEN LET first == CHOOSE i \in DOMAIN params :
                         /\ params[i].name = name
                         /\ \A j \in 1..(i - 1) : params[j].name # name
             kept == SelectSeq([i \in DOMAIN params |-> [at |-> i, param |-> params[i]]],
                               LAMBDA e : e.param.name # name \/ e.at = first)
         IN  [i \in DOMAIN kept |->
                 IF kept[i].at = first THEN [name |-> name, value |-> value]
                 ELSE kept[i].param]
    ELSE Append(params, [name |-> name, value |-> value])

\* Array.prototype.findIndex, 0-based, -1 if none.
FindSegment(segments, wanted) ==
    IF \E i \in DOMAIN segments : segments[i] = wanted
    THEN (CHOOSE i \in DOMAIN segments :
             /\ segments[i] = wanted
             /\ \A j \in 1..(i - 1) : segments[j] # wanted) - 1
    ELSE -1

\* unselect
unselect(f, url, map) ==
    LET mapSegments == Split(map, ",")
    IN  IF Len(mapSegments) = 1
        THEN url.pathname \o url.search
        ELSE LET index == FindSegment(mapSegments, f.Map)
                 spliced == IF index > -1
                            THEN SubSeq(mapSegments, 1, index)
                                 \o SubSeq(mapSegments, index + 2, Len(mapSegments))
                            ELSE mapSegments
                 replaced == RemoveFirst(url.pathname, <<"/">> \o f.Value)
                 newPathname == IF replaced = <<>> THEN <<"/">> ELSE replaced
                 params == IF Len(spliced) > 0
                           THEN SearchParamsSet(ParseSearch(url.search),
                                                <<"m", "a", "p">>, Join(spliced, ","))
                           ELSE ParseSearch(url.search)
                 newSearch == IF Len(spliced) > 0
                              THEN <<"?">> \o SearchParamsToString(params)
                              ELSE url.search
             IN  newPathname \o newSearch

\* legacyFacetToFilter
legacyFacetToFilter(name, facets, url, map) ==
    LET mapSegments == Range(Split(map, ","))
        pathParts == Split(url.pathname, "/")
        pathSegments ==
            Range(SubSeq(pathParts, 1,
                         IF Cardinality(mapSegments) + 1 < Len(pathParts)
                         THEN Cardinality(mapSegments) + 1
                         ELSE Len(pathParts)))
    IN  [type |-> "FilterToggle",
         quantity |-> Len(facets),
         label |-> name,
         key |-> name,
         values |->
            [i \in DOMAIN facets |->
                LET selected == facets[i].Map \in mapSegments
                                /\ facets[i].Value \in pathSegments
                IN  [value |-> facets[i].Value,
                     quantity |-> facets[i].Quantity,
                     url |-> IF selected THEN unselect(facets[i], url, map)
                             ELSE facets[i].LinkEncoded,
                     label |-> facets[i].Name,
                     selected |-> selected]]]

\* A caller builds the filter of a group of legacy facets for the page url.
CallLegacyFacetToFilter ==
    /\ legacyFilter = <<>>
    /\ legacyFilter' =
          <<legacyFacetToFilter(<<"B">>, legacyFacets, legacyUrl, legacyMap)>>
    /\ UNCHANGED <<facet, selectedFacets, filter, searchVars, legacyFacets,
                   legacyUrl, legacyMap>>

\* ---- inputs ----
MapNames == { <<"c">>, <<"b">> }
PathValues == { <<"s">>, <<"k">> }
LegacyFacet(map, value) ==
    [Map |-> map, Value |-> value, Name |-> value, Quantity |-> 1,
     LinkEncoded |-> <<"/", "l", "/">> \o value]
LegacyFacets == {LegacyFacet(m, v) : m \in MapNames, v \in PathValues}
SearchPrefixes == { <<"?">>, <<"?", "O", "=", "x", "&">> }

\* A legacy search url: one path segment per segment of its map parameter,
\* and the map argument is the map parameter of the url.
InitLegacy ==
    /\ \E n \in 1..MaxMapSegments :
          \E names \in [1..n -> MapNames], values \in [1..n -> PathValues],
             prefix \in SearchPrefixes :
             /\ legacyMap = Join(names, ",")
             /\ legacyUrl = [pathname |-> <<"/">> \o Join(values, "/"),
                             search |-> prefix \o <<"m", "a", "p", "=">>
                                        \o Join(names, ",")]
    /\ legacyFacets \in SeqsUpTo(LegacyFacets, 1, MaxValues)
    /\ legacyFilter = <<>>
    /\ facet = <<>>
    /\ selectedFacets = <<>>
    /\ filter = <<>>
    /\ IdleSearch
    /\ IdleCart
    /\ IdleProduct

NextLegacy == CallLegacyFacetToFilter /\ UNCHANGED <<cartVars, productVars>>

SpecLegacy == InitLegacy /\ [][NextLegacy]_vars

(***************************************************************************)
(* Properties of legacyFacetToFilter                                       *)
(***************************************************************************)

\* The facet is applied in the url: at some position the segment of map is
\* its Map and the segment of the pathname is its Value.
AppliedInUrl(f) ==
    LET mapSegments == Split(legacyMap, ",")
        pathSegments == Tail(Split(legacyUrl.pathname, "/"))
    IN  \E i \in DOMAIN mapSegments :
           /\ i \in DOMAIN pathSegments
           /\ mapSegments[i] = f.Map
           /\ pathSegments[i] = f.Value

\* C11: every facet that is applied in the url comes back selected, with the
\* unselect link instead of its LinkEncoded, also when map repeats a
\* segment; with a map of one segment the unselect link is the current
\* pathname and search.
C11_AppliedFacetsSelected ==
    legacyFilter # <<>> =>
        \A k \in DOMAIN legacyFacets :
            AppliedInUrl(legacyFacets[k]) =>
                /\ legacyFilter[1].values[k].selected
                /\ legacyFilter[1].values[k].url # legacyFacets[k].LinkEncoded
                /\ Len(Split(legacyMap, ",")) = 1 =>
                      legacyFilter[1].values[k].url =
                         legacyUrl.pathname \o legacyUrl.search

(***************************************************************************)
(* Properties of useCart.ts                                                *)
(***************************************************************************)

\* C1: the queued operations are serial: at most one of their requests is in
\* flight at any time, and a callback has started only if the promise of
\* every operation called before it has settled (so callbacks start in call
\* order, each after the previous operation settled).
C1_SerialQueue ==
    /\ Cardinality(requests) <= 1
    /\ \A i \in DOMAIN queue :
          (queue[i].ran \/ queue[i].state = "running") =>
             \A j \in 1..(i - 1) : queue[j].state \in Settled
    /\ \A r \in requests : queue[r.id].state = "running"

\* C1 witness: a later operation's request is in flight while another
\* operation called after it is still waiting.
C1_Witness ==
    \E i \in DOMAIN queue :
        /\ i >= 2
        /\ queue[i].state = "running"
        /\ queue[i - 1].state = "fulfilled"
        /\ i + 1 \in DOMAIN queue
        /\ queue[i + 1].state = "pending"
        /\ \E r \in requests : r.id = i

C7_EveryCallbackRuns ==
    \A i \in DOMAIN queue : queue[i].state \in Settled => queue[i].ran

\* C8: loading is true while a queued request is in flight, and it is false
\* whenever no request is in flight and some operation has passed withLoading
\* (whether its request succeeded or failed).
PassedWithLoading(i) == queue[i].ran /\ queue[i].error # MissingCartError

C8_LoadingBrackets ==
    /\ requests # {} => loading
    /\ (requests = {} /\ \E i \in DOMAIN queue : PassedWithLoading(i)) => ~loading

\* C8 witness: a request failed, nothing is in flight, loading is false.
C8_Witness ==
    /\ requests = {}
    /\ ~loading
    /\ \E i \in DOMAIN queue :
          queue[i].state = "rejected" /\ queue[i].ran /\ queue[i].error = FetchError

\* C9: the cart changes only when a queued request succeeds, and then it
\* becomes the order form of the response; a failed request leaves the cart
\* as it was when the operation started; simulate touches neither the cart,
\* nor loading, nor the queue.
C9_CartChangesOnSuccessOnly ==
    [][/\ cart' # cart =>
             \E r \in requests :
                /\ r \notin requests'
                /\ r.response \in OrderForms
                /\ queue[r.id].state = "running"
                /\ queue'[r.id].state = "fulfilled"
       /\ \A r \in requests :
             (r \notin requests' /\ r.response \in OrderForms) => cart' = r.response
       /\ \A r \in requests :
             (r \notin requests' /\ r.response = "error") =>
                /\ cart' = cart
                /\ r.op \in Mutations => cart' = r.orderFormId
                /\ queue'[r.id].state = "rejected"
       /\ simulations' # simulations =>
             /\ cart' = cart
             /\ loading' = loading
             /\ queue' = queue
             /\ requests' = requests]_vars

\* C9 witness: a request succeeded and set the cart, a later one failed and
\* the cart is still an order form.
C9_Witness ==
    \E i \in DOMAIN queue :
        /\ i >= 2
        /\ queue[i - 1].state = "fulfilled"
        /\ queue[i].state = "rejected"
        /\ queue[i].error = FetchError
        /\ cart \in OrderForms

====
